---- MODULE Spec2Model ----
(***************************************************************************)
(* Shortcut dispatch and task-lifecycle engine of CapsWriter-Offline       *)
(* (ShortcutTask / ShortcutManager, util/client/shortcut/REFACTOR.md).     *)
(*                                                                         *)
(* Time is discrete: one tick is a fifth of the press threshold, so the    *)
(* 0.8 x threshold wait of _manage_task lasts four ticks.  Statements take *)
(* no time; only time.sleep, Event.wait and waiting in the executor's      *)
(* queue let the clock advance.  A submitted job may stay queued for any   *)
(* time (the four workers are shared by every binding).  Injection through *)
(* a pynput Controller is synchronous with the hook: the filter runs       *)
(* inside the press()/release() call of the injecting job.                 *)
(***************************************************************************)
EXTENDS Integers, Sequences, FiniteSets, TLC

\* ---------------------------------------------------------------- bounds
MaxTime == 5
MaxEvents == 4

\* ------------------------------------------------------ program constants
Threshold == 5
PoolSize == 4

WM_KEYDOWN == 256
WM_KEYUP == 257
WM_SYSKEYDOWN == 260
WM_SYSKEYUP == 261
WM_XBUTTONDOWN == 523
WM_XBUTTONUP == 524
XBUTTON1 == 1
XBUTTON2 == 2

VK_CAPITAL == 20
VK_F1 == 112
VK_NONE == 0

KEYBOARD_MESSAGES == {WM_KEYDOWN, WM_KEYUP, WM_SYSKEYDOWN, WM_SYSKEYUP}
KEYDOWN_MESSAGES == {WM_KEYDOWN, WM_SYSKEYDOWN}
KEYUP_MESSAGES == {WM_KEYUP, WM_SYSKEYUP}
MOUSE_MESSAGES == {WM_XBUTTONDOWN, WM_XBUTTONUP}

\* raw codes the environment delivers
KeyboardCodes == {VK_CAPITAL, VK_F1, VK_NONE}
XButtons == {XBUTTON1, XBUTTON2}

\* ------------------------------------------------------------ key mapping
letters == << "a", "b", "c", "d", "e", "f", "g", "h", "i", "j", "k", "l", "m",
             "n", "o", "p", "q", "r", "s", "t", "u", "v", "w", "x", "y", "z" >>

vk_map == (VK_CAPITAL :> "caps_lock") @@ (32 :> "space") @@ (9 :> "tab")
          @@ (13 :> "enter") @@ (27 :> "esc") @@ (46 :> "delete")
          @@ (8 :> "backspace")
          @@ [vk \in VK_F1..(VK_F1 + 11) |-> "f" \o ToString(vk - VK_F1 + 1)]
          @@ [vk \in 65..90 |-> letters[vk - 64]]
          @@ [vk \in 48..57 |-> ToString(vk - 48)]

\* _vk_to_name formatting an unknown code without the prefix
vk_to_name_bare(vk) ==
    IF vk \in DOMAIN vk_map THEN vk_map[vk]
    ELSE IF vk \in 48..57 THEN ToString(vk - 48)
    ELSE IF vk \in 65..90 THEN letters[vk - 64]
    ELSE ToString(vk)

vk_to_name(vk) ==
    IF vk \in DOMAIN vk_map THEN vk_map[vk]
    ELSE IF vk \in 48..57 THEN ToString(vk - 48)
    ELSE IF vk \in 65..90 THEN letters[vk - 64]
    ELSE "vk_" \o ToString(vk)

special_keys == {"caps_lock", "space", "tab", "enter", "esc", "delete",
                 "backspace", "shift", "ctrl", "alt", "cmd"}
                \cup { "f" \o ToString(i) : i \in 1..12 }

\* _name_to_key taking every name that is not a special key for a character
name_to_key_any_char(key_name) ==
    IF key_name \in special_keys THEN key_name
    ELSE IF Len(key_name) >= 1 THEN key_name
    ELSE "None"

\* the pynput key object is represented by the name itself, None by "None"
name_to_key(key_name) ==
    IF key_name \in special_keys THEN key_name
    ELSE IF Len(key_name) = 1 THEN key_name
    ELSE "None"

\* inverse of the key object -> virtual key code the Controller sends
key_to_vk(key_obj) ==
    CHOOSE vk \in DOMAIN vk_map \cup {VK_NONE} :
        IF \E c \in DOMAIN vk_map : vk_map[c] = key_obj
        THEN vk \in DOMAIN vk_map /\ vk_map[vk] = key_obj
        ELSE vk = VK_NONE

button_map == ("x1" :> XBUTTON1) @@ ("x2" :> XBUTTON2)

button_name_of(xbutton) == IF xbutton = XBUTTON1 THEN "x1" ELSE "x2"

\* ---------------------------------------------------------- configuration
Shortcut(key, type, hold_mode, suppress, restore, enabled) ==
    [key |-> key, type |-> type, hold_mode |-> hold_mode,
     suppress |-> suppress, restore |-> restore, enabled |-> enabled]

is_toggle_key(shortcut) == shortcut.key \in {"caps_lock"}

\* binding lists handed to the constructor
Configs ==
    { << Shortcut("caps_lock", "keyboard", TRUE, TRUE, TRUE, TRUE) >>,
      << Shortcut("f1", "keyboard", TRUE, FALSE, TRUE, TRUE),
         Shortcut("caps_lock", "keyboard", TRUE, TRUE, TRUE, FALSE) >>,
      << Shortcut("x2", "mouse", TRUE, TRUE, FALSE, TRUE) >>,
      << Shortcut("x2", "mouse", FALSE, TRUE, FALSE, TRUE) >>,
      << Shortcut("caps_lock", "keyboard", FALSE, FALSE, TRUE, TRUE) >>,
      << Shortcut("caps_lock", "keyboard", TRUE, TRUE, FALSE, TRUE),
         Shortcut("x1", "mouse", TRUE, FALSE, FALSE, TRUE) >> }

VARIABLES
    shortcuts,          \* ShortcutManager.shortcuts
    tasks,              \* ShortcutManager.tasks: key -> ShortcutTask fields
    events,             \* the threading.Event objects ever created: id -> is set
    emulating_keys,     \* ShortcutManager._emulating_keys
    restoring_keys,     \* ShortcutManager._restoring_keys
    queue,              \* ThreadPoolExecutor work queue
    running,            \* jobs held by a worker thread
    nextJob,            \* number of jobs submitted so far
    pool_shutdown,      \* ThreadPoolExecutor._shutdown
    keyboard_listener,  \* "None" | "running" | "failed" | "stopped"
    mouse_listener,     \* "None" | "running" | "failed" | "stopped"
    stop_pc,            \* position of the thread executing stop(), with its history
    now,                \* time.time()
    down,               \* environment: raw inputs physically held down
    nEvents,            \* environment: physical events delivered so far
    calls,              \* history: collaborator calls per key
    sessions,           \* history: recorder tasks started and not yet closed, per key
    downstream,         \* history: events the rest of the system received
    armed,              \* history: the last physical press of a key that found it idle
    last,               \* history: what the most recent step did
    fault,              \* environment: the call that raises when it is made
    restores,           \* history: restore jobs scheduled and their injections, per key
    aborted,            \* history: ids of the jobs that gave up (exception, no key object)
    timeouts            \* history: wait signals of the presses whose job timed out and cancelled

vars == << shortcuts, tasks, events, emulating_keys, restoring_keys, queue,
           running, nextJob, pool_shutdown, keyboard_listener, mouse_listener,
           stop_pc, now, down, nEvents, calls, sessions, downstream, armed, last,
           fault, restores, aborted, timeouts >>

Range(s) == { s[i] : i \in DOMAIN s }

EnabledKeys(cfg) == { s.key : s \in { x \in Range(cfg) : x.enabled } }

\* ------------------------------------------------------------ ShortcutTask
NewTask(shortcut, ev) ==
    [shortcut |-> shortcut, is_recording |-> FALSE, recording_start_time |-> 0,
     pressed |-> FALSE, released |-> TRUE, event |-> ev, threshold |-> Threshold]

\* The part of the program state the hook callback and the jobs work on.
Mgr == [tasks |-> tasks, events |-> events, emulating |-> emulating_keys,
        restoring |-> restoring_keys, queue |-> queue, nextJob |-> nextJob,
        calls |-> calls, sessions |-> sessions, restores |-> restores,
        aborted |-> aborted, timeouts |-> timeouts, raised |-> FALSE,
        blocking |-> {}]

NewJob(m, kind, key) ==
    [id |-> m.nextJob + 1, kind |-> kind, key |-> key, pc |-> "queued",
     was_recording |-> FALSE, ev |-> 0, t0 |-> 0,
     \* history: the Event the submitting handler saw, and for _manage_task the
     \* is_recording it saw, kept until the job reads the flag itself
     ev0 |-> m.tasks[key].event,
     was0 |-> kind = "manage_task" /\ m.tasks[key].is_recording]

\* the replay run by the caller instead of a worker, as before the refactoring
submit_inline(m, kind, key) ==
    IF kind \in {"emulate_key", "emulate_mouse_click"}
    THEN [m EXCEPT !.blocking = @ \cup {"inject"}]
    ELSE IF pool_shutdown
    THEN [m EXCEPT !.raised = TRUE]
    ELSE [m EXCEPT !.queue = Append(@, NewJob(m, kind, key)),
                   !.nextJob = @ + 1]

\* ThreadPoolExecutor.submit: raises RuntimeError once shutdown() was called
submit(m, kind, key) ==
    IF pool_shutdown
    THEN [m EXCEPT !.raised = TRUE]
    ELSE [m EXCEPT !.queue = Append(@, NewJob(m, kind, key)),
                   !.nextJob = @ + 1]

\* launch closing the flag of every other task, as if one recorder were shared
launch_exclusive(m, k) ==
    [m EXCEPT !.tasks = [x \in DOMAIN @ |->
                            IF x = k
                            THEN [@[x] EXCEPT !.recording_start_time = now,
                                              !.is_recording = TRUE]
                            ELSE [@[x] EXCEPT !.is_recording = FALSE]],
              !.calls[k] = Append(@, "launch"),
              !.sessions[k] = IF fault = "launch" THEN @ ELSE @ + 1,
              !.raised = (fault = "launch")]

\* launch: the two flag writes come first; when a later statement raises, the
\* recorder task of the last statement is never created
launch(m, k) ==
    [m EXCEPT !.tasks[k].recording_start_time = now,
              !.tasks[k].is_recording = TRUE,
              !.calls[k] = Append(@, "launch"),
              !.sessions[k] = IF fault = "launch" THEN @ ELSE @ + 1,
              !.raised = (fault = "launch")]

\* cancel: the flag write comes first; when state.stop_recording() raises,
\* self.task.cancel() is not reached
cancel(m, k) ==
    [m EXCEPT !.tasks[k].is_recording = FALSE,
              !.calls[k] = Append(@, "cancel"),
              !.sessions[k] = IF fault = "cancel" THEN @
                              ELSE IF @ > 0 THEN @ - 1 ELSE 0,
              !.raised = (fault = "cancel")]

schedule_restore(m, key) ==
    submit([m EXCEPT !.restoring = @ \cup {key},
                     !.restores[key].jobs = IF pool_shutdown THEN @ ELSE @ + 1],
           "restore", key)

restore_key(m, k) ==
    IF ~ is_toggle_key(m.tasks[k].shortcut) THEN m
    ELSE schedule_restore(m, m.tasks[k].shortcut.key)

\* finish calling _restore_key whatever the binding's restore flag
finish_always_restore(m, k) ==
    LET m1 == [m EXCEPT !.tasks[k].is_recording = FALSE,
                        !.calls[k] = Append(@, "finish"),
                        !.sessions[k] = IF fault = "finish" THEN @
                                        ELSE IF @ > 0 THEN @ - 1 ELSE 0,
                        !.raised = (fault = "finish")]
    IN  IF m1.raised THEN m1 ELSE restore_key(m1, k)

\* finish: the flag write comes first; when a later statement raises, the
\* 'finish' message is not queued and _restore_key is not reached
finish(m, k) ==
    LET m1 == [m EXCEPT !.tasks[k].is_recording = FALSE,
                        !.calls[k] = Append(@, "finish"),
                        !.sessions[k] = IF fault = "finish" THEN @
                                        ELSE IF @ > 0 THEN @ - 1 ELSE 0,
                        !.raised = (fault = "finish")]
    IN  IF m1.raised THEN m1
        ELSE IF m.tasks[k].shortcut.restore THEN restore_key(m1, k) ELSE m1

\* ------------------------------------------------------------ hook filters
NewEvent(m) == [m EXCEPT !.events = Append(@, FALSE)]

Decision(m, decision, marked) ==
    [m |-> m, decision |-> decision, marked |-> marked]

\* the end of the filter after the handler ran: suppress_event() is reached
\* only when no exception left the handler
Handled(m, suppress) ==
    Decision(m, IF m.raised THEN "Raised"
                ELSE IF suppress THEN "Suppress" ELSE "PassThrough", FALSE)

\* the keyboard handler with the hold-mode press not looking at task.is_recording
keyboard_handle_relaunch(m, key_name, msg) ==
    LET task == m.tasks[key_name]
        shortcut == task.shortcut
    IN  IF msg \in KEYDOWN_MESSAGES
        THEN IF shortcut.hold_mode
             THEN launch(m, key_name)
             ELSE IF task.released
                  THEN LET m1 == NewEvent(m)
                           m2 == [m1 EXCEPT !.tasks[key_name].pressed = TRUE,
                                            !.tasks[key_name].released = FALSE,
                                            !.tasks[key_name].event = Len(m1.events)]
                       IN  submit(submit(m2, "count_down", key_name),
                                  "manage_task", key_name)
                  ELSE m
        ELSE IF shortcut.hold_mode
             THEN IF task.is_recording
                  THEN LET duration == now - task.recording_start_time
                       IN  IF duration < task.threshold
                           THEN LET m1 == cancel(m, key_name)
                                IN  IF ~ m1.raised /\ shortcut.suppress
                                    THEN submit(m1, "emulate_key", key_name)
                                    ELSE m1
                           ELSE finish(m, key_name)
                  ELSE m
             ELSE IF task.pressed
                  THEN [m EXCEPT !.tasks[key_name].pressed = FALSE,
                                 !.tasks[key_name].released = TRUE,
                                 !.events[task.event] = TRUE]
                  ELSE m

\* the keyboard handler with the click-mode press not looking at task.released
keyboard_handle_no_latch(m, key_name, msg) ==
    LET task == m.tasks[key_name]
        shortcut == task.shortcut
    IN  IF msg \in KEYDOWN_MESSAGES
        THEN IF shortcut.hold_mode
             THEN IF ~ task.is_recording THEN launch(m, key_name) ELSE m
             ELSE LET m1 == NewEvent(m)
                      m2 == [m1 EXCEPT !.tasks[key_name].pressed = TRUE,
                                       !.tasks[key_name].released = FALSE,
                                       !.tasks[key_name].event = Len(m1.events)]
                  IN  submit(submit(m2, "count_down", key_name),
                             "manage_task", key_name)
        ELSE IF shortcut.hold_mode
             THEN IF task.is_recording
                  THEN LET duration == now - task.recording_start_time
                       IN  IF duration < task.threshold
                           THEN LET m1 == cancel(m, key_name)
                                IN  IF ~ m1.raised /\ shortcut.suppress
                                    THEN submit(m1, "emulate_key", key_name)
                                    ELSE m1
                           ELSE finish(m, key_name)
                  ELSE m
             ELSE IF task.pressed
                  THEN [m EXCEPT !.tasks[key_name].pressed = FALSE,
                                 !.tasks[key_name].released = TRUE,
                                 !.events[task.event] = TRUE]
                  ELSE m

\* the keyboard handler with the release branch forgetting task.released
keyboard_handle_half_latch(m, key_name, msg) ==
    LET task == m.tasks[key_name]
        shortcut == task.shortcut
    IN  IF msg \in KEYDOWN_MESSAGES
        THEN IF shortcut.hold_mode
             THEN IF ~ task.is_recording THEN launch(m, key_name) ELSE m
             ELSE IF task.released
                  THEN LET m1 == NewEvent(m)
                           m2 == [m1 EXCEPT !.tasks[key_name].pressed = TRUE,
                                            !.tasks[key_name].released = FALSE,
                                            !.tasks[key_name].event = Len(m1.events)]
                       IN  submit(submit(m2, "count_down", key_name),
                                  "manage_task", key_name)
                  ELSE m
        ELSE IF shortcut.hold_mode
             THEN IF task.is_recording
                  THEN LET duration == now - task.recording_start_time
                       IN  IF duration < task.threshold
                           THEN LET m1 == cancel(m, key_name)
                                IN  IF ~ m1.raised /\ shortcut.suppress
                                    THEN submit(m1, "emulate_key", key_name)
                                    ELSE m1
                           ELSE finish(m, key_name)
                  ELSE m
             ELSE IF task.pressed
                  THEN [m EXCEPT !.tasks[key_name].pressed = FALSE,
                                 !.events[task.event] = TRUE]
                  ELSE m

keyboard_handle(m, key_name, msg) ==
    LET task == m.tasks[key_name]
        shortcut == task.shortcut
    IN  IF msg \in KEYDOWN_MESSAGES
        THEN IF shortcut.hold_mode
             THEN IF ~ task.is_recording THEN launch(m, key_name) ELSE m
             ELSE IF task.released
                  THEN LET m1 == NewEvent(m)
                           m2 == [m1 EXCEPT !.tasks[key_name].pressed = TRUE,
                                            !.tasks[key_name].released = FALSE,
                                            !.tasks[key_name].event = Len(m1.events)]
                       IN  submit(submit(m2, "count_down", key_name),
                                  "manage_task", key_name)
                  ELSE m
        ELSE IF shortcut.hold_mode
             THEN IF task.is_recording
                  THEN LET duration == now - task.recording_start_time
                       IN  IF duration < task.threshold
                           THEN LET m1 == cancel(m, key_name)
                                IN  IF ~ m1.raised /\ shortcut.suppress
                                    THEN submit(m1, "emulate_key", key_name)
                                    ELSE m1
                           ELSE finish(m, key_name)
                  ELSE m
             ELSE IF task.pressed
                  THEN [m EXCEPT !.tasks[key_name].pressed = FALSE,
                                 !.tasks[key_name].released = TRUE,
                                 !.events[task.event] = TRUE]
                  ELSE m

\* keyboard_filter taking the suppress decision for guarded events as well
keyboard_filter_suppress_marked(m, msg, vk) ==
    IF msg \notin KEYBOARD_MESSAGES THEN Decision(m, "PassThrough", FALSE)
    ELSE LET key_name == vk_to_name(vk)
             decision == IF key_name \in DOMAIN m.tasks
                            /\ m.tasks[key_name].shortcut.suppress
                         THEN "Suppress" ELSE "PassThrough"
         IN
         IF key_name \in m.emulating
         THEN Decision(IF msg \in KEYUP_MESSAGES
                       THEN [m EXCEPT !.emulating = @ \ {key_name}] ELSE m,
                       decision, TRUE)
         ELSE IF key_name \in m.restoring
         THEN Decision(IF msg \in KEYUP_MESSAGES
                       THEN [m EXCEPT !.restoring = @ \ {key_name}] ELSE m,
                       decision, TRUE)
         ELSE IF key_name \notin DOMAIN m.tasks
         THEN Decision(m, "PassThrough", FALSE)
         ELSE Handled(keyboard_handle(m, key_name, msg),
                      m.tasks[key_name].shortcut.suppress)

\* keyboard_filter with the mark discarded on the first guarded event, press or
\* release
keyboard_filter_clear_on_press(m, msg, vk) ==
    IF msg \notin KEYBOARD_MESSAGES THEN Decision(m, "PassThrough", FALSE)
    ELSE LET key_name == vk_to_name(vk) IN
         IF key_name \in m.emulating
         THEN Decision([m EXCEPT !.emulating = @ \ {key_name}], "PassThrough", TRUE)
         ELSE IF key_name \in m.restoring
         THEN Decision([m EXCEPT !.restoring = @ \ {key_name}], "PassThrough", TRUE)
         ELSE IF key_name \notin DOMAIN m.tasks
         THEN Decision(m, "PassThrough", FALSE)
         ELSE Handled(keyboard_handle(m, key_name, msg),
                      m.tasks[key_name].shortcut.suppress)

keyboard_filter(m, msg, vk) ==
    IF msg \notin KEYBOARD_MESSAGES THEN Decision(m, "PassThrough", FALSE)
    ELSE LET key_name == vk_to_name(vk) IN
         IF key_name \in m.emulating
         THEN Decision(IF msg \in KEYUP_MESSAGES
                       THEN [m EXCEPT !.emulating = @ \ {key_name}] ELSE m,
                       "PassThrough", TRUE)
         ELSE IF key_name \in m.restoring
         THEN Decision(IF msg \in KEYUP_MESSAGES
                       THEN [m EXCEPT !.restoring = @ \ {key_name}] ELSE m,
                       "PassThrough", TRUE)
         ELSE IF key_name \notin DOMAIN m.tasks
         THEN Decision(m, "PassThrough", FALSE)
         ELSE Handled(keyboard_handle(m, key_name, msg),
                      m.tasks[key_name].shortcut.suppress)

\* the mouse handler cancelling a hold-mode session of exactly `threshold' too
mouse_handle_inclusive(m, button_name, msg) ==
    LET task == m.tasks[button_name]
        shortcut == task.shortcut
    IN  IF msg = WM_XBUTTONDOWN
        THEN IF shortcut.hold_mode
             THEN IF ~ task.is_recording THEN launch(m, button_name) ELSE m
             ELSE IF task.released
                  THEN LET m1 == NewEvent(m)
                           m2 == [m1 EXCEPT !.tasks[button_name].pressed = TRUE,
                                            !.tasks[button_name].released = FALSE,
                                            !.tasks[button_name].event = Len(m1.events)]
                       IN  submit(submit(m2, "count_down", button_name),
                                  "manage_task", button_name)
                  ELSE m
        ELSE IF shortcut.hold_mode
             THEN IF task.is_recording
                  THEN LET duration == now - task.recording_start_time
                       IN  IF duration <= task.threshold
                           THEN LET m1 == cancel(m, button_name)
                                IN  IF ~ m1.raised /\ shortcut.suppress
                                    THEN submit(m1, "emulate_mouse_click", button_name)
                                    ELSE m1
                           ELSE finish(m, button_name)
                  ELSE m
             ELSE IF task.pressed
                  THEN [m EXCEPT !.tasks[button_name].pressed = FALSE,
                                 !.tasks[button_name].released = TRUE,
                                 !.events[task.event] = TRUE]
                  ELSE m

\* the mouse handler replaying the click of every cancelled hold-mode session,
\* whatever the suppress flag of the binding
mouse_handle_replay_unsuppressed(m, button_name, msg) ==
    LET task == m.tasks[button_name]
        shortcut == task.shortcut
    IN  IF msg = WM_XBUTTONDOWN
        THEN IF shortcut.hold_mode
             THEN IF ~ task.is_recording THEN launch(m, button_name) ELSE m
             ELSE IF task.released
                  THEN LET m1 == NewEvent(m)
                           m2 == [m1 EXCEPT !.tasks[button_name].pressed = TRUE,
                                            !.tasks[button_name].released = FALSE,
                                            !.tasks[button_name].event = Len(m1.events)]
                       IN  submit(submit(m2, "count_down", button_name),
                                  "manage_task", button_name)
                  ELSE m
        ELSE IF shortcut.hold_mode
             THEN IF task.is_recording
                  THEN LET duration == now - task.recording_start_time
                       IN  IF duration < task.threshold
                           THEN LET m1 == cancel(m, button_name)
                                IN  IF ~ m1.raised
                                    THEN submit(m1, "emulate_mouse_click", button_name)
                                    ELSE m1
                           ELSE finish(m, button_name)
                  ELSE m
             ELSE IF task.pressed
                  THEN [m EXCEPT !.tasks[button_name].pressed = FALSE,
                                 !.tasks[button_name].released = TRUE,
                                 !.events[task.event] = TRUE]
                  ELSE m

mouse_handle(m, button_name, msg) ==
    LET task == m.tasks[button_name]
        shortcut == task.shortcut
    IN  IF msg = WM_XBUTTONDOWN
        THEN IF shortcut.hold_mode
             THEN IF ~ task.is_recording THEN launch(m, button_name) ELSE m
             ELSE IF task.released
                  THEN LET m1 == NewEvent(m)
                           m2 == [m1 EXCEPT !.tasks[button_name].pressed = TRUE,
                                            !.tasks[button_name].released = FALSE,
                                            !.tasks[button_name].event = Len(m1.events)]
                       IN  submit(submit(m2, "count_down", button_name),
                                  "manage_task", button_name)
                  ELSE m
        ELSE IF shortcut.hold_mode
             THEN IF task.is_recording
                  THEN LET duration == now - task.recording_start_time
                       IN  IF duration < task.threshold
                           THEN LET m1 == cancel(m, button_name)
                                IN  IF ~ m1.raised /\ shortcut.suppress
                                    THEN submit(m1, "emulate_mouse_click", button_name)
                                    ELSE m1
                           ELSE finish(m, button_name)
                  ELSE m
             ELSE IF task.pressed
                  THEN [m EXCEPT !.tasks[button_name].pressed = FALSE,
                                 !.tasks[button_name].released = TRUE,
                                 !.events[task.event] = TRUE]
                  ELSE m

\* mouse_filter suppressing only the events its handler acted on
mouse_filter_lazy(m, msg, xbutton) ==
    IF msg \notin MOUSE_MESSAGES THEN Decision(m, "PassThrough", FALSE)
    ELSE LET button_name == button_name_of(xbutton) IN
         IF button_name \in m.emulating
         THEN Decision(IF msg = WM_XBUTTONUP
                       THEN [m EXCEPT !.emulating = @ \ {button_name}] ELSE m,
                       "PassThrough", TRUE)
         ELSE IF button_name \notin DOMAIN m.tasks
         THEN Decision(m, "PassThrough", FALSE)
         ELSE LET m1 == mouse_handle(m, button_name, msg) IN
              Handled(m1, m.tasks[button_name].shortcut.suppress /\ m1 # m)

mouse_filter(m, msg, xbutton) ==
    IF msg \notin MOUSE_MESSAGES THEN Decision(m, "PassThrough", FALSE)
    ELSE LET button_name == button_name_of(xbutton) IN
         IF button_name \in m.emulating
         THEN Decision(IF msg = WM_XBUTTONUP
                       THEN [m EXCEPT !.emulating = @ \ {button_name}] ELSE m,
                       "PassThrough", TRUE)
         ELSE IF button_name \notin DOMAIN m.tasks
         THEN Decision(m, "PassThrough", FALSE)
         ELSE Handled(mouse_handle(m, button_name, msg),
                      m.tasks[button_name].shortcut.suppress)

\* ------------------------------------------------------------ construction
HasType(cfg, type) == \E s \in Range(cfg) : s.enabled /\ s.type = type

\* the position of the binding whose task the registry keeps under a key:
\* self.tasks[shortcut.key] = task overwrites the task of an earlier binding
LastEnabled(cfg, k) ==
    CHOOSE i \in DOMAIN cfg :
        /\ cfg[i].enabled /\ cfg[i].key = k
        /\ \A j \in DOMAIN cfg : cfg[j].enabled /\ cfg[j].key = k => j <= i

\* every enabled binding builds a ShortcutTask with a new Event
NumEnabled(cfg) == Cardinality({j \in DOMAIN cfg : cfg[j].enabled})

InitTasks(cfg) ==
    [k \in EnabledKeys(cfg) |->
        NewTask(cfg[LastEnabled(cfg, k)],
                Cardinality({j \in DOMAIN cfg : cfg[j].enabled
                               /\ j <= LastEnabled(cfg, k)}))]

\* the fields of the task of a key that its handler reads, none for other keys
NoPre == [is_recording |-> FALSE, pressed |-> FALSE, released |-> FALSE, event |-> 0]

NoLast ==
    [op |-> "none", device |-> "none", key |-> "none", synthetic |-> FALSE,
     marked |-> FALSE, guard |-> {}, decision |-> "none", acted |-> FALSE,
     ev |-> 0, ev0 |-> 0, called |-> {}, submitted |-> {}, raised |-> FALSE,
     blocking |-> {}, job |-> 0, njobs |-> 0, pre |-> NoPre, was |-> FALSE,
     was0 |-> FALSE, touched |-> {}, jobkey |-> "none"]

Construct(configs) ==
    /\ shortcuts \in configs
    /\ tasks = InitTasks(shortcuts)
    /\ events = [i \in 1..NumEnabled(shortcuts) |-> FALSE]
    /\ emulating_keys = {}
    /\ restoring_keys = {}
    /\ queue = << >>
    /\ running = {}
    /\ nextJob = 0
    /\ pool_shutdown = FALSE
    /\ keyboard_listener = "None"
    /\ mouse_listener = "None"
    /\ stop_pc = [pc |-> "constructed", i |-> 0, jobs |-> 0, cancelled |-> << >>]
    /\ now = 0
    /\ down = {}
    /\ nEvents = 0
    /\ calls = [k \in EnabledKeys(shortcuts) |-> << >>]
    /\ sessions = [k \in EnabledKeys(shortcuts) |-> 0]
    /\ downstream = << >>
    /\ armed = [k \in EnabledKeys(shortcuts) |->
                    [on |-> FALSE, t |-> 0, n |-> 0, ops |-> 0, inwin |-> FALSE,
                     quick |-> FALSE]]
    /\ last = NoLast
    /\ restores = [k \in EnabledKeys(shortcuts) |->
                       [jobs |-> 0, presses |-> 0, releases |-> 0]]
    /\ aborted = {}
    /\ timeouts = {}

\* the collaborators and the pynput Controller work
Init ==
    /\ Construct(Configs)
    /\ fault = "none"

\* binding lists in which a disabled binding has the key of an enabled one:
\* no rule of the configuration asks for distinct keys
SharedKeyConfigs ==
    { << Shortcut("caps_lock", "keyboard", TRUE, TRUE, FALSE, TRUE),
         Shortcut("caps_lock", "keyboard", FALSE, FALSE, FALSE, FALSE) >> }

InitRegistry ==
    /\ Construct(Configs \cup SharedKeyConfigs)
    /\ fault = "none"

\* calls that can raise: ShortcutTask.launch / cancel / finish after their flag
\* writes, and Controller.press
Faults == {"launch", "cancel", "finish", "press"}

\* a binding list that the validation of the configuration should have
\* rejected: the key is the identifier of a code outside the key tables
MalformedConfigs ==
    { << Shortcut(vk_to_name(VK_NONE), "keyboard", TRUE, TRUE, FALSE, TRUE) >> }

\* the binding lists run with a raising call: those with a hold-mode or a
\* suppressing binding, whose hook calls the collaborators or submits a replay
FaultConfigs ==
    { c \in Configs : \E i \in DOMAIN c : c[i].hold_mode \/ c[i].suppress }

\* one of the calls raises whenever it is made, or the configuration is malformed
InitFault ==
    \/ Construct(FaultConfigs) /\ fault \in Faults
    \/ Construct(MalformedConfigs) /\ fault = "config"

Commit(m) ==
    /\ tasks' = m.tasks
    /\ events' = m.events
    /\ emulating_keys' = m.emulating
    /\ restoring_keys' = m.restoring
    /\ queue' = m.queue
    /\ nextJob' = m.nextJob
    /\ calls' = m.calls
    /\ sessions' = m.sessions
    /\ restores' = m.restores
    /\ aborted' = m.aborted
    /\ timeouts' = m.timeouts

Acted(m) ==
    \/ m.tasks # tasks
    \/ m.events # events
    \/ m.queue # queue
    \/ m.calls # calls

\* what the step that leads to m called, submitted and raised
Called(m) ==
    UNION { { << k, m.calls[k][i] >> : i \in (Len(calls[k]) + 1)..Len(m.calls[k]) } :
            k \in DOMAIN calls }

Submitted(m) ==
    { << q.key, q.kind >> : q \in { x \in Range(m.queue) : x.id > nextJob } }

\* the keys whose task, wait signal or collaborator the step that leads to m
\* wrote or called
Touched(m) ==
    { k \in DOMAIN tasks :
        \/ m.tasks[k] # tasks[k]
        \/ m.events[tasks[k].event] # events[tasks[k].event]
        \/ m.calls[k] # calls[k] }

Effects(lst, m) ==
    [lst EXCEPT !.called = Called(m), !.submitted = Submitted(m),
                !.raised = m.raised, !.blocking = m.blocking,
                !.njobs = m.nextJob - nextJob, !.touched = Touched(m)]

\* the task of the key as the step finds it
PreOf(key) ==
    IF key \in DOMAIN tasks
    THEN [is_recording |-> tasks[key].is_recording, pressed |-> tasks[key].pressed,
          released |-> tasks[key].released, event |-> tasks[key].event]
    ELSE NoPre

\* the guard sets that hold the key when the step begins
GuardSets(key) ==
    (IF key \in emulating_keys THEN {"emulating"} ELSE {})
    \cup (IF key \in restoring_keys THEN {"restoring"} ELSE {})

LastOf(op, device, key, synthetic, D) ==
    Effects([NoLast EXCEPT !.op = op, !.device = device, !.key = key,
                           !.synthetic = synthetic, !.marked = D.marked,
                           !.guard = GuardSets(key), !.decision = D.decision,
                           !.acted = Acted(D.m), !.pre = PreOf(key)], D.m)

Seen(D, key, op, source) ==
    IF D.decision = "PassThrough" /\ key \in DOMAIN tasks
    THEN Append(downstream, << key, op, source >>)
    ELSE downstream

Marked(key) == key \in emulating_keys \cup restoring_keys

\* nothing is going on: no job, no session, no button of a binding held
Quiescent ==
    /\ queue = << >>
    /\ running = {}
    /\ down = {}
    /\ \A k \in DOMAIN tasks : ~ tasks[k].is_recording

\* one try block of start(): the Listener is built and started, or the
\* exception of either call is caught and logged
StartListener(cfg, type, fails) ==
    IF ~ HasType(cfg, type) THEN "None"
    ELSE IF fails THEN "failed" ELSE "running"

\* start() without the try blocks: a failure of the keyboard Listener leaves
\* start() before the mouse Listener is built
Start_propagates ==
    /\ stop_pc.pc = "constructed"
    /\ stop_pc' = [stop_pc EXCEPT !.pc = "started"]
    /\ \E kfails \in BOOLEAN, mfails \in BOOLEAN :
          /\ keyboard_listener' = StartListener(shortcuts, "keyboard", kfails)
          /\ mouse_listener' = IF kfails /\ HasType(shortcuts, "keyboard") THEN "None"
                               ELSE StartListener(shortcuts, "mouse", mfails)
    /\ last' = NoLast
    /\ UNCHANGED << shortcuts, fault, restores, aborted, timeouts, tasks, events, emulating_keys, restoring_keys, queue,
                    running, nextJob, pool_shutdown, now, down, nEvents, calls,
                    sessions, downstream, armed >>

\* ShortcutManager.start
Start ==
    /\ stop_pc.pc = "constructed"
    /\ stop_pc' = [stop_pc EXCEPT !.pc = "started"]
    /\ \E kfails \in BOOLEAN, mfails \in BOOLEAN :
          /\ keyboard_listener' = StartListener(shortcuts, "keyboard", kfails)
          /\ mouse_listener' = StartListener(shortcuts, "mouse", mfails)
    /\ last' = NoLast
    /\ UNCHANGED << shortcuts, fault, restores, aborted, timeouts, tasks, events, emulating_keys, restoring_keys, queue,
                    running, nextJob, pool_shutdown, now, down, nEvents, calls,
                    sessions, downstream, armed >>

\* ------------------------------------------------- physical input (the OS)
\* Keys without a task are typed only while the engine is quiescent: their
\* events read and write nothing of the engine, so they commute with every step.
Typable(key) == key \in DOMAIN tasks \/ Quiescent

Held(key, input) == IF key \in DOMAIN tasks THEN {input} ELSE {}

JobsOf(key) == { j \in Range(queue) \cup running : j.key = key }

\* Event.wait(timeout=threshold * 0.8) entered at t0 has timed out at t
TimedOutAt(t, t0, threshold) == 5 * (t - t0) >= 4 * threshold

\* History of an activation.  A physical press (not an auto-repeat) opens one when
\* it finds no session open and the key unmarked, and for a click-mode binding no
\* job of the key left in the pool; every further physical event of the key is
\* counted, `inwin' tells whether all of them came within the threshold and
\* `quick' whether all of them came within 0.8 x threshold.
Arm(key, first) ==
    IF key \notin DOMAIN tasks \/ ~ first THEN armed
    ELSE IF /\ ~ tasks[key].is_recording
            /\ ~ Marked(key)
            /\ tasks[key].shortcut.hold_mode \/ JobsOf(key) = {}
         THEN [armed EXCEPT ![key] = [on |-> TRUE, t |-> now, n |-> Len(calls[key]),
                                      ops |-> 1, inwin |-> TRUE, quick |-> TRUE]]
         ELSE IF tasks[key].shortcut.hold_mode
         THEN [armed EXCEPT ![key].on = FALSE]
         ELSE [armed EXCEPT ![key].ops = @ + 1,
                            ![key].inwin = @ /\ now - armed[key].t < tasks[key].threshold,
                            ![key].quick = @ /\ ~ TimedOutAt(now, armed[key].t,
                                                             tasks[key].threshold)]

Disarm(key) ==
    IF key \notin DOMAIN tasks THEN armed
    ELSE [armed EXCEPT ![key].ops = @ + 1,
                       ![key].inwin = @ /\ now - armed[key].t < tasks[key].threshold,
                       ![key].quick = @ /\ ~ TimedOutAt(now, armed[key].t,
                                                        tasks[key].threshold)]

\* a key goes down (or auto-repeats while held) and the keyboard hook runs
KeyboardPress(msg, vk) ==
    /\ keyboard_listener = "running"
    /\ nEvents < MaxEvents
    /\ msg \in KEYDOWN_MESSAGES
    /\ Typable(vk_to_name(vk))
    /\ LET key == vk_to_name(vk)
           D == keyboard_filter(Mgr, msg, vk)
       IN  /\ Commit(D.m)
           /\ down' = down \cup Held(key, << "keyboard", vk >>)
           /\ armed' = Arm(key, << "keyboard", vk >> \notin down)
           /\ last' = LastOf("press", "keyboard", key, FALSE, D)
           /\ downstream' = Seen(D, key, "press", "physical")
    /\ nEvents' = nEvents + 1
    /\ UNCHANGED << shortcuts, fault, running, pool_shutdown, keyboard_listener,
                    mouse_listener, stop_pc, now >>

KeyboardRelease(msg, vk) ==
    /\ keyboard_listener = "running"
    /\ nEvents < MaxEvents
    /\ msg \in KEYUP_MESSAGES
    /\ Typable(vk_to_name(vk))
    /\ vk_to_name(vk) \in DOMAIN tasks => << "keyboard", vk >> \in down
    /\ LET key == vk_to_name(vk)
           D == keyboard_filter(Mgr, msg, vk)
       IN  /\ Commit(D.m)
           /\ down' = down \ {<< "keyboard", vk >>}
           /\ armed' = Disarm(key)
           /\ last' = LastOf("release", "keyboard", key, FALSE, D)
           /\ downstream' = Seen(D, key, "release", "physical")
    /\ nEvents' = nEvents + 1
    /\ UNCHANGED << shortcuts, fault, running, pool_shutdown, keyboard_listener,
                    mouse_listener, stop_pc, now >>

\* a side button goes down and the mouse hook runs (buttons do not auto-repeat)
MousePress(xbutton) ==
    /\ mouse_listener = "running"
    /\ nEvents < MaxEvents
    /\ << "mouse", xbutton >> \notin down
    /\ Typable(button_name_of(xbutton))
    /\ LET key == button_name_of(xbutton)
           D == mouse_filter(Mgr, WM_XBUTTONDOWN, xbutton)
       IN  /\ Commit(D.m)
           /\ down' = down \cup Held(key, << "mouse", xbutton >>)
           /\ armed' = Arm(key, TRUE)
           /\ last' = LastOf("press", "mouse", key, FALSE, D)
           /\ downstream' = Seen(D, key, "press", "physical")
    /\ nEvents' = nEvents + 1
    /\ UNCHANGED << shortcuts, fault, running, pool_shutdown, keyboard_listener,
                    mouse_listener, stop_pc, now >>

MouseRelease(xbutton) ==
    /\ mouse_listener = "running"
    /\ nEvents < MaxEvents
    /\ Typable(button_name_of(xbutton))
    /\ button_name_of(xbutton) \in DOMAIN tasks => << "mouse", xbutton >> \in down
    /\ LET key == button_name_of(xbutton)
           D == mouse_filter(Mgr, WM_XBUTTONUP, xbutton)
       IN  /\ Commit(D.m)
           /\ down' = down \ {<< "mouse", xbutton >>}
           /\ armed' = Disarm(key)
           /\ last' = LastOf("release", "mouse", key, FALSE, D)
           /\ downstream' = Seen(D, key, "release", "physical")
    /\ nEvents' = nEvents + 1
    /\ UNCHANGED << shortcuts, fault, running, pool_shutdown, keyboard_listener,
                    mouse_listener, stop_pc, now >>

\* ------------------------------------------------------------ worker pool
RestoreDelay == 0

Done(j) == [j EXCEPT !.pc = "done"]

\* the job gives up: it found no key object, or an exception was caught and
\* logged by the job itself or kept by the pool in the job's Future
Abort(m, j) == [m EXCEPT !.aborted = @ \cup {j.id}]

Ended(m, j) == IF m.raised THEN Abort(m, j) ELSE m

\* one statement of a job: the manager state, the job's position, the history
Step(j, j2, m, lst, ds) ==
    /\ Commit(m)
    /\ running' = (running \ {j}) \cup (IF j2.pc = "done" THEN {} ELSE {j2})
    /\ last' = [Effects(lst, m) EXCEPT !.job = j.id, !.jobkey = j.key]
    /\ downstream' = ds
    /\ UNCHANGED << shortcuts, fault, pool_shutdown, keyboard_listener, mouse_listener,
                    stop_pc, now, down, nEvents, armed >>

\* history of a statement of _manage_task: the job's was_recording, the Event
\* it waits on and the Event of the press that submitted it
ManageLast(j, op) ==
    [NoLast EXCEPT !.op = op, !.key = j.key, !.was = j.was_recording,
                   !.was0 = j.was0, !.ev = j.ev, !.ev0 = j.ev0,
                   !.pre = PreOf(j.key)]

\* start of a sleep or timed wait whose deadline the predicate says is within
\* MaxTime; a wait that cannot end by the clock keeps no start time
WaitFrom(expires) == IF expires THEN now ELSE MaxTime

\* a free worker takes the oldest work item and runs it up to its first wait
JobStart ==
    /\ queue # << >>
    /\ Cardinality(running) < PoolSize
    /\ LET j == Head(queue)
           m == [Mgr EXCEPT !.queue = Tail(queue)]
       IN  CASE j.kind = "count_down" ->
                   Step(j, [j EXCEPT !.pc = "sleep",
                                     !.t0 = WaitFrom(now + tasks[j.key].threshold
                                                     <= MaxTime)],
                        m, NoLast, downstream)
             [] j.kind = "manage_task" ->
                   Step(j, [j EXCEPT !.was_recording = tasks[j.key].is_recording,
                                     !.was0 = FALSE,
                                     !.pc = IF tasks[j.key].is_recording
                                            THEN "wait" ELSE "launch"],
                        m,
                        ManageLast([j EXCEPT !.was_recording =
                                                 tasks[j.key].is_recording],
                                   "manage_start"),
                        downstream)
             [] j.kind \in {"emulate_key", "emulate_mouse_click"} ->
                   Step(j, [j EXCEPT !.pc = "press"],
                        [m EXCEPT !.emulating = @ \cup {j.key}], NoLast, downstream)
             [] j.kind = "restore" ->
                   Step(j, [j EXCEPT !.pc = "sleep", !.t0 = now], m, NoLast, downstream)

\* _count_down closing the session that is open when the threshold passes
CountDownFire_close(j) ==
    /\ j.kind = "count_down" /\ j.pc = "sleep"
    /\ now >= j.t0 + tasks[j.key].threshold
    /\ Step(j, Done(j),
            LET m == [Mgr EXCEPT !.events[tasks[j.key].event] = TRUE]
            IN  IF tasks[j.key].is_recording THEN finish(m, j.key) ELSE m,
            [NoLast EXCEPT !.op = "count_down", !.key = j.key,
                           !.ev = tasks[j.key].event, !.ev0 = j.ev0],
            downstream)

\* _count_down sleeping until the button is released instead of for the threshold
CountDownFire_on_release(j) ==
    /\ j.kind = "count_down" /\ j.pc = "sleep"
    /\ now >= j.t0 + tasks[j.key].threshold
    /\ ~ tasks[j.key].pressed
    /\ Step(j, Done(j), [Mgr EXCEPT !.events[tasks[j.key].event] = TRUE],
            [NoLast EXCEPT !.op = "count_down", !.key = j.key,
                           !.ev = tasks[j.key].event, !.ev0 = j.ev0],
            downstream)

\* _count_down after time.sleep(task.threshold)
CountDownFire(j) ==
    /\ j.kind = "count_down" /\ j.pc = "sleep"
    /\ now >= j.t0 + tasks[j.key].threshold
    /\ Step(j, Done(j), [Mgr EXCEPT !.events[tasks[j.key].event] = TRUE],
            [NoLast EXCEPT !.op = "count_down", !.key = j.key,
                           !.ev = tasks[j.key].event, !.ev0 = j.ev0],
            downstream)

\* _manage_task: if not was_recording: task.launch()
ManageLaunch(j) ==
    /\ j.kind = "manage_task" /\ j.pc = "launch"
    /\ LET m == launch(Mgr, j.key)
       IN  Step(j, IF m.raised THEN Done(j) ELSE [j EXCEPT !.pc = "wait"],
                Ended(m, j), ManageLast(j, "manage_launch"), downstream)

\* _manage_task: task.event.wait(timeout=...) is entered on the current Event
ManageWait(j) ==
    /\ j.kind = "manage_task" /\ j.pc = "wait"
    /\ Step(j, [j EXCEPT !.pc = "waiting", !.ev = tasks[j.key].event,
                         !.t0 = WaitFrom(TimedOutAt(MaxTime, now,
                                                    tasks[j.key].threshold))],
            Mgr, ManageLast([j EXCEPT !.ev = tasks[j.key].event], "manage_wait"),
            downstream)

TimedOut(j) == TimedOutAt(now, j.t0, tasks[j.key].threshold)

\* _manage_task finishing whenever the wait returns True on an open session
ManageSignalled_any(j) ==
    /\ j.kind = "manage_task" /\ j.pc = "waiting"
    /\ events[j.ev]
    /\ Step(j, IF tasks[j.key].is_recording
               THEN [j EXCEPT !.pc = "finish"] ELSE Done(j),
            Mgr, ManageLast(j, "manage_signalled"), downstream)

\* _manage_task: wait() returned True
ManageSignalled(j) ==
    /\ j.kind = "manage_task" /\ j.pc = "waiting"
    /\ events[j.ev]
    /\ Step(j, IF tasks[j.key].is_recording /\ j.was_recording
               THEN [j EXCEPT !.pc = "finish"] ELSE Done(j),
            Mgr, ManageLast(j, "manage_signalled"), downstream)

\* _manage_task: task.finish()
ManageFinish(j) ==
    /\ j.kind = "manage_task" /\ j.pc = "finish"
    /\ Step(j, Done(j), Ended(finish(Mgr, j.key), j),
            ManageLast(j, "manage_finish"), downstream)

\* _manage_task with an else branch that leaves the session open
ManageTimeout_keep(j) ==
    /\ j.kind = "manage_task" /\ j.pc = "waiting"
    /\ ~ events[j.ev]
    /\ TimedOut(j)
    /\ Step(j, Done(j), Mgr, ManageLast(j, "manage_timeout"), downstream)

\* _manage_task: wait() returned False
ManageTimeout(j) ==
    /\ j.kind = "manage_task" /\ j.pc = "waiting"
    /\ ~ events[j.ev]
    /\ TimedOut(j)
    /\ Step(j, Done(j),
            IF ~ j.was_recording
            THEN Ended([cancel(Mgr, j.key) EXCEPT !.timeouts = @ \cup {j.ev0}], j)
            ELSE Mgr,
            ManageLast(j, "manage_timeout"), downstream)

\* Controller.press / Controller.release: the hook, if installed, runs inside
InjectKey(msg, vk) ==
    IF keyboard_listener = "running"
    THEN keyboard_filter(Mgr, msg, vk)
    ELSE Decision(Mgr, "PassThrough", FALSE)

InjectButton(msg, xbutton) ==
    IF mouse_listener = "running"
    THEN mouse_filter(Mgr, msg, xbutton)
    ELSE Decision(Mgr, "PassThrough", FALSE)

LastInjected(op, device, key, D) ==
    IF (device = "keyboard" /\ keyboard_listener = "running")
       \/ (device = "mouse" /\ mouse_listener = "running")
    THEN LastOf(op, device, key, TRUE, D)
    ELSE NoLast

\* _async_emulate_key with the try block around press() only
EmulateKeyPress_continue(j) ==
    /\ j.kind = "emulate_key" /\ j.pc = "press"
    /\ LET key_obj == name_to_key(j.key)
           D == InjectKey(WM_KEYDOWN, key_to_vk(key_obj))
       IN  IF key_obj = "None"
           THEN Step(j, Done(j), Abort(Mgr, j), NoLast, downstream)
           ELSE IF fault = "press"
           THEN Step(j, [j EXCEPT !.pc = "release"],
                     Abort([Mgr EXCEPT !.raised = TRUE], j), NoLast, downstream)
           ELSE Step(j, [j EXCEPT !.pc = "release"], D.m,
                     LastInjected("press", "keyboard", j.key, D),
                     Seen(D, j.key, "press", "replay"))

\* _async_emulate_key: name_to_key, then press
EmulateKeyPress(j) ==
    /\ j.kind = "emulate_key" /\ j.pc = "press"
    /\ LET key_obj == name_to_key(j.key)
           D == InjectKey(WM_KEYDOWN, key_to_vk(key_obj))
       IN  IF key_obj = "None"
           THEN Step(j, Done(j), Abort(Mgr, j), NoLast, downstream)
           ELSE IF fault = "press"
           THEN Step(j, Done(j), Abort([Mgr EXCEPT !.raised = TRUE], j),
                     NoLast, downstream)
           ELSE Step(j, [j EXCEPT !.pc = "release"], D.m,
                     LastInjected("press", "keyboard", j.key, D),
                     Seen(D, j.key, "press", "replay"))

EmulateKeyRelease(j) ==
    /\ j.kind = "emulate_key" /\ j.pc = "release"
    /\ LET D == InjectKey(WM_KEYUP, key_to_vk(name_to_key(j.key)))
       IN  Step(j, Done(j), D.m,
                LastInjected("release", "keyboard", j.key, D),
                Seen(D, j.key, "release", "replay"))

\* _async_emulate_mouse_click
EmulateMousePress(j) ==
    /\ j.kind = "emulate_mouse_click" /\ j.pc = "press"
    /\ IF j.key \notin DOMAIN button_map
       THEN Step(j, Done(j), Abort(Mgr, j), NoLast, downstream)
       ELSE IF fault = "press"
       THEN Step(j, Done(j), Abort([Mgr EXCEPT !.raised = TRUE], j),
                 NoLast, downstream)
       ELSE LET D == InjectButton(WM_XBUTTONDOWN, button_map[j.key])
            IN  Step(j, [j EXCEPT !.pc = "release"], D.m,
                     LastInjected("press", "mouse", j.key, D),
                     Seen(D, j.key, "press", "replay"))

EmulateMouseRelease(j) ==
    /\ j.kind = "emulate_mouse_click" /\ j.pc = "release"
    /\ LET D == InjectButton(WM_XBUTTONUP, button_map[j.key])
       IN  Step(j, Done(j), D.m,
                LastInjected("release", "mouse", j.key, D),
                Seen(D, j.key, "release", "replay"))

\* do_restore after time.sleep(0.01): press caps_lock, or nothing for other keys
RestorePress(j) ==
    /\ j.kind = "restore" /\ j.pc = "sleep"
    /\ now >= j.t0 + RestoreDelay
    /\ IF j.key = "caps_lock" /\ fault = "press"
       THEN Step(j, [j EXCEPT !.pc = "finally"],
                 Abort([Mgr EXCEPT !.raised = TRUE], j), NoLast, downstream)
       ELSE IF j.key = "caps_lock"
       THEN LET D == InjectKey(WM_KEYDOWN, VK_CAPITAL)
            IN  Step(j, [j EXCEPT !.pc = "release"],
                     [D.m EXCEPT !.restores[j.key].presses = @ + 1],
                     LastInjected("press", "keyboard", j.key, D),
                     Seen(D, j.key, "press", "restore"))
       ELSE Step(j, [j EXCEPT !.pc = "finally"], Mgr, NoLast, downstream)

RestoreRelease(j) ==
    /\ j.kind = "restore" /\ j.pc = "release"
    /\ LET D == InjectKey(WM_KEYUP, VK_CAPITAL)
       IN  Step(j, [j EXCEPT !.pc = "finally"],
                [D.m EXCEPT !.restores[j.key].releases = @ + 1],
                LastInjected("release", "keyboard", j.key, D),
                Seen(D, j.key, "release", "restore"))

\* do_restore: finally: self._restoring_keys.discard(key)
RestoreFinally(j) ==
    /\ j.kind = "restore" /\ j.pc = "finally"
    /\ Step(j, Done(j), [Mgr EXCEPT !.restoring = @ \ {j.key}],
            [NoLast EXCEPT !.op = "discard", !.key = j.key, !.guard = GuardSets(j.key)],
            downstream)

\* a running job that can execute its next statement now
Ready(j) ==
    \/ j.pc \in {"launch", "wait", "finish", "press", "release", "finally"}
    \/ j.kind = "count_down" /\ j.pc = "sleep" /\ now >= j.t0 + tasks[j.key].threshold
    \/ j.kind = "restore" /\ j.pc = "sleep" /\ now >= j.t0 + RestoreDelay
    \/ j.pc = "waiting" /\ (events[j.ev] \/ TimedOut(j))

\* ------------------------------------------------------------------- stop
StopListeners ==
    /\ stop_pc.pc = "started"
    /\ stop_pc' = [stop_pc EXCEPT !.pc = "check", !.i = 1]
    /\ keyboard_listener' = IF keyboard_listener = "running" THEN "stopped"
                            ELSE keyboard_listener
    /\ mouse_listener' = IF mouse_listener = "running" THEN "stopped"
                         ELSE mouse_listener
    /\ last' = NoLast
    /\ UNCHANGED << shortcuts, fault, restores, aborted, timeouts, tasks, events, emulating_keys, restoring_keys, queue,
                    running, nextJob, pool_shutdown, now, down, nEvents, calls,
                    sessions, downstream, armed >>

\* for task in self.tasks.values(): if task.is_recording:
StopCheck ==
    /\ stop_pc.pc = "check"
    /\ stop_pc.i <= Len(shortcuts)
    /\ LET s == shortcuts[stop_pc.i]
       IN  stop_pc' = IF s.enabled /\ tasks[s.key].is_recording
                      THEN [stop_pc EXCEPT !.pc = "cancel"]
                      ELSE [stop_pc EXCEPT !.i = @ + 1]
    /\ last' = NoLast
    /\ UNCHANGED << shortcuts, fault, restores, aborted, timeouts, tasks, events, emulating_keys, restoring_keys, queue,
                    running, nextJob, pool_shutdown, keyboard_listener,
                    mouse_listener, now, down, nEvents, calls, sessions,
                    downstream, armed >>

\* task.cancel()
StopCancel ==
    /\ stop_pc.pc = "cancel"
    /\ Commit(cancel(Mgr, shortcuts[stop_pc.i].key))
    /\ stop_pc' = [stop_pc EXCEPT !.pc = IF fault = "cancel" THEN "raised" ELSE "check",
                                  !.i = @ + 1,
                                  !.cancelled = Append(@, shortcuts[stop_pc.i].key)]
    /\ last' = Effects([NoLast EXCEPT !.op = "stop_cancel",
                                      !.key = shortcuts[stop_pc.i].key,
                                      !.acted = tasks[shortcuts[stop_pc.i].key].is_recording],
                       cancel(Mgr, shortcuts[stop_pc.i].key))
    /\ UNCHANGED << shortcuts, fault, running, pool_shutdown, keyboard_listener,
                    mouse_listener, now, down, nEvents, downstream, armed >>

\* self._pool.shutdown(wait=False)
StopShutdown ==
    /\ stop_pc.pc = "check"
    /\ stop_pc.i > Len(shortcuts)
    /\ pool_shutdown' = TRUE
    /\ stop_pc' = [stop_pc EXCEPT !.pc = "done", !.i = 0, !.jobs = nextJob]
    /\ last' = NoLast
    /\ UNCHANGED << shortcuts, fault, restores, aborted, timeouts, tasks, events, emulating_keys, restoring_keys, queue,
                    running, nextJob, keyboard_listener, mouse_listener, now, down,
                    nEvents, calls, sessions, downstream, armed >>

\* ------------------------------------------------------------------ clock
Tick ==
    /\ now < MaxTime
    /\ \A j \in running : ~ Ready(j)
    /\ stop_pc.pc \notin {"check", "cancel"}
    /\ now' = now + 1
    /\ last' = NoLast
    /\ UNCHANGED << shortcuts, fault, restores, aborted, timeouts, tasks, events, emulating_keys, restoring_keys, queue,
                    running, nextJob, pool_shutdown, keyboard_listener,
                    mouse_listener, stop_pc, down, nEvents, calls, sessions,
                    downstream, armed >>

Run ==
    \/ Start
    \/ \E msg \in KEYDOWN_MESSAGES, vk \in KeyboardCodes : KeyboardPress(msg, vk)
    \/ \E msg \in KEYUP_MESSAGES, vk \in KeyboardCodes : KeyboardRelease(msg, vk)
    \/ \E xbutton \in XButtons : MousePress(xbutton)
    \/ \E xbutton \in XButtons : MouseRelease(xbutton)
    \/ JobStart
    \/ \E j \in running : CountDownFire(j)
    \/ \E j \in running : ManageLaunch(j)
    \/ \E j \in running : ManageWait(j)
    \/ \E j \in running : ManageSignalled(j)
    \/ \E j \in running : ManageFinish(j)
    \/ \E j \in running : ManageTimeout(j)
    \/ \E j \in running : EmulateKeyPress(j)
    \/ \E j \in running : EmulateKeyRelease(j)
    \/ \E j \in running : EmulateMousePress(j)
    \/ \E j \in running : EmulateMouseRelease(j)
    \/ \E j \in running : RestorePress(j)
    \/ \E j \in running : RestoreRelease(j)
    \/ \E j \in running : RestoreFinally(j)
    \/ Tick

Next ==
    \/ Run
    \/ StopListeners
    \/ StopCheck
    \/ StopCancel
    \/ StopShutdown

\* the engine between start() and stop()
SpecRun == Init /\ [][Run]_vars

\* the engine with stop() called at any moment
Spec == Init /\ [][Next]_vars

\* the engine between start() and stop() with a call that raises
SpecFault == InitFault /\ [][Run]_vars

\* a step of the pool or of the clock: a worker takes a job, a job executes its
\* next statement, time passes
PoolStep ==
    \/ JobStart
    \/ \E j \in running : CountDownFire(j)
    \/ \E j \in running : ManageLaunch(j)
    \/ \E j \in running : ManageWait(j)
    \/ \E j \in running : ManageSignalled(j)
    \/ \E j \in running : ManageFinish(j)
    \/ \E j \in running : ManageTimeout(j)
    \/ \E j \in running : EmulateKeyPress(j)
    \/ \E j \in running : EmulateKeyRelease(j)
    \/ \E j \in running : EmulateMousePress(j)
    \/ \E j \in running : EmulateMouseRelease(j)
    \/ \E j \in running : RestorePress(j)
    \/ \E j \in running : RestoreRelease(j)
    \/ \E j \in running : RestoreFinally(j)
    \/ Tick

\* the running engine with fair worker threads and a clock that goes on; the
\* user is under no obligation to press or release anything.  The binding lists
\* are those of one suppressing binding, which submit every kind of job
LiveConfigs ==
    { c \in Configs : Len(c) = 1 /\ c[1].suppress }

InitLive ==
    /\ Construct(LiveConfigs)
    /\ fault = "none"

SpecLive == InitLive /\ [][Run]_vars /\ WF_vars(PoolStep)

\* the running engine over binding lists whose keys need not be distinct
SpecRegistry == InitRegistry /\ [][Run]_vars

\* ------------------------------------------------------------ properties
CallsSince(k) == SubSeq(calls[k], armed[k].n + 1, Len(calls[k]))

Count(seq, x) == Cardinality({ i \in DOMAIN seq : seq[i] = x })

Dispatched == last.op \in {"press", "release"}

\* the step just taken dispatched the physical release of hold-mode key k, whose
\* press had found no session open and k unmarked
HoldReleased(k) ==
    /\ last.op = "release" /\ ~ last.synthetic /\ last.key = k
    /\ tasks[k].shortcut.hold_mode
    /\ armed[k].on

\* C1: a hold-mode press that finds the task idle and unmarked, followed by its
\* release at least `threshold' later, yields launch() then finish(), no cancel().
C1_HoldLongPress ==
    \A k \in DOMAIN tasks :
        HoldReleased(k) /\ now - armed[k].t >= tasks[k].threshold
            => CallsSince(k) = << "launch", "finish" >>

\* C2: the same press released before `threshold' yields launch() then cancel(),
\* and no finish().
C2_HoldShortPress ==
    \A k \in DOMAIN tasks :
        HoldReleased(k) /\ now - armed[k].t < tasks[k].threshold
            => CallsSince(k) = << "launch", "cancel" >>

\* C3: no task ever has more than one recording session open, i.e. launch() is
\* never called on a task whose session is open.
C3_OneSessionPerTask ==
    \A k \in DOMAIN tasks : sessions[k] <= 1

\* C4: an event injected by the engine is never handled as user input: it is
\* passed through, and it calls no collaborator method, changes no task state
\* and schedules no job.
C4_SyntheticNotUserInput ==
    Dispatched /\ last.synthetic => last.decision = "PassThrough" /\ ~ last.acted

KeySeen(k) ==
    SelectSeq(downstream, LAMBDA e : e[1] = k /\ e[3] # "restore")

Replays(k, n) ==
    [i \in 1..(2 * n) |->
        << k, IF i % 2 = 1 THEN "press" ELSE "release", "replay" >>]

\* C5: for a hold-mode binding with suppress, once the replay jobs have run the
\* rest of the system has received, for every short press, exactly one
\* synthetic press and release, and none of the physical events.
C5_ReplayOnce ==
    \A k \in DOMAIN tasks :
        /\ tasks[k].shortcut.hold_mode /\ tasks[k].shortcut.suppress
        /\ JobsOf(k) = {} /\ << tasks[k].shortcut.type, k >> \notin
                               { << d[1], IF d[1] = "mouse" THEN button_name_of(d[2])
                                          ELSE vk_to_name(d[2]) >> : d \in down }
        => KeySeen(k) = Replays(k, Count(calls[k], "cancel"))

\* C6 as stated: a synthetic press of a marked key leaves it marked, the
\* synthetic release leaves the guard without an entry for the key, and a
\* discard of an absent key leaves it absent.
C6_GuardRoundTrip ==
    /\ Dispatched /\ last.synthetic /\ last.marked
         => IF last.op = "press" THEN Marked(last.key) ELSE ~ Marked(last.key)
    /\ last.op = "discard" => ~ Marked(last.key)

\* C6 amended: the synthetic release removes the key from the set the filter
\* found it in (_emulating_keys first); the key stays in _restoring_keys exactly
\* when it was in both sets.
C6_GuardRoundTripPerSet ==
    /\ Dispatched /\ last.synthetic /\ last.marked
         => IF last.op = "press"
            THEN Marked(last.key) /\ GuardSets(last.key) = last.guard
            ELSE /\ last.key \notin emulating_keys
                 /\ last.key \in restoring_keys
                      <=> last.guard = {"emulating", "restoring"}
    /\ last.op = "discard" => last.key \notin restoring_keys

\* a replay's synthetic release found the key in both guard sets
W6_ReleaseInBothSets ==
    /\ Dispatched /\ last.synthetic /\ last.marked /\ last.op = "release"
    /\ last.guard = {"emulating", "restoring"}
    /\ last.key \in restoring_keys

ManageJobsOf(k) == { j \in JobsOf(k) : j.kind = "manage_task" }

\* C7: a click-mode binding that starts idle and gets press, release, press,
\* release within the threshold ends with launch() then finish() and nothing
\* else; before the second release there is no finish() and one launch() at most.
C7_DoubleClick ==
    \A k \in DOMAIN tasks :
        ~ tasks[k].shortcut.hold_mode /\ armed[k].on /\ armed[k].inwin
        => /\ armed[k].ops = 4 /\ ManageJobsOf(k) = {}
                => CallsSince(k) = << "launch", "finish" >>
           /\ armed[k].ops < 4 =>
                /\ Count(CallsSince(k), "finish") = 0
                /\ Count(CallsSince(k), "launch") <= 1

\* C8: a countdown job resolves the Event that the press which spawned it
\* allocated.
C8_CountdownOwnSignal ==
    last.op = "count_down" => last.ev = last.ev0

\* C9: an event for an unmarked identifier is suppressed exactly when the
\* identifier has a task whose binding has suppress set.
C9_SuppressDecision ==
    Dispatched /\ ~ last.marked
        => (last.decision = "Suppress"
              <=> last.key \in DOMAIN tasks /\ tasks[last.key].shortcut.suppress)

\* an unmarked physical event that changed nothing was suppressed all the same
W9_IgnoredEventSuppressed ==
    /\ Dispatched /\ ~ last.synthetic /\ ~ last.marked /\ ~ last.acted
    /\ last.decision = "Suppress"

ListenersRunning == keyboard_listener = "running" \/ mouse_listener = "running"

\* C10: stop() stops the listeners first, then cancels each task whose session
\* is open once and no other task, and shuts the pool down last; after that no
\* raw event is dispatched and no job is submitted.
C10_StopOrder ==
    /\ stop_pc.pc \in {"check", "cancel", "done"} => ~ ListenersRunning
    /\ pool_shutdown => stop_pc.pc = "done"
    /\ last.op = "stop_cancel" => last.acted
    /\ \A i, j \in DOMAIN stop_pc.cancelled :
          stop_pc.cancelled[i] = stop_pc.cancelled[j] => i = j
    /\ pool_shutdown => nextJob = stop_pc.jobs /\ ~ Dispatched

InjectingJobsOf(k) ==
    { j \in JobsOf(k) : j.kind \in {"emulate_key", "emulate_mouse_click", "restore"} }

\* C11: an identifier with no replay or restore job pending or running is not
\* marked in the guard, also after a job that aborted.
C11_GuardLifetime ==
    \A k \in DOMAIN tasks : InjectingJobsOf(k) = {} => ~ Marked(k)

\* C12: when launch(), cancel() or finish() raises, the exception neither leaves
\* the filter nor ends the worker job, and the task is left idle: is_recording
\* false and no session open.
C12_CollaboratorRaises ==
    last.raised /\ last.called # {}
        => /\ last.decision # "Raised"
           /\ last.job \notin aborted
           /\ \A c \in last.called :
                 ~ tasks[c[1]].is_recording /\ sessions[c[1]] = 0

\* C13: an event dispatched while its identifier is in a guard set is passed
\* through; it changes no task state, calls no collaborator method and
\* schedules no job, whatever the binding's suppress flag.
C13_MarkedEventFrame ==
    Dispatched /\ last.guard # {}
        => /\ last.decision = "PassThrough"
           /\ ~ last.acted
           /\ last.called = {} /\ last.submitted = {}

\* a physical event of a binding with suppress arrived while the key was marked
W13_MarkedSuppressBinding ==
    /\ Dispatched /\ last.guard # {} /\ ~ last.synthetic
    /\ last.key \in DOMAIN tasks /\ tasks[last.key].shortcut.suppress
    /\ last.decision = "PassThrough"

\* the replay job of k has injected its press and not yet its release
ReplayHalfDone(k) ==
    \E j \in running : /\ j.key = k /\ j.pc = "release"
                        /\ j.kind \in {"emulate_key", "emulate_mouse_click"}

\* C14: a physical press that lands between the synthetic press and the
\* synthetic release of a replay of the same identifier is not passed through
\* as self-emitted; it is handled as user input.
C14_PressBeforeSyntheticRelease ==
    /\ Dispatched /\ last.op = "press" /\ ~ last.synthetic
    /\ last.key \in DOMAIN tasks /\ ReplayHalfDone(last.key)
    => ~ last.marked

\* the identifiers of the key tables and of the mouse buttons
NamedKeys ==
    { vk_map[vk] : vk \in DOMAIN vk_map } \cup special_keys \cup DOMAIN button_map

ReplayJobs == { j \in Range(queue) \cup running :
                  j.kind \in {"emulate_key", "emulate_mouse_click"} }

\* C16: the reverse mapping gives None for an identifier without a platform
\* key (the synthetic identifiers, the mouse buttons); a replay job that got
\* None or whose injection raised is gone: it injects nothing more, submits
\* nothing, and its worker is free for later jobs.
C16_ReplayAborts ==
    /\ stop_pc.pc = "constructed" =>
          /\ \A vk \in 0..255 :
                vk \notin DOMAIN vk_map => name_to_key(vk_to_name(vk)) = "None"
          /\ \A b \in DOMAIN button_map : name_to_key(b) = "None"
    /\ \A j \in ReplayJobs : j.id \notin aborted
    /\ last.job \in aborted => ~ Dispatched /\ last.submitted = {}
    /\ Cardinality(running) <= PoolSize

\* a replay job was started after an earlier replay job had found no key
\* object for its identifier
W16_JobAfterAbort ==
    /\ fault = "config"
    /\ \E j \in running :
          /\ j.kind = "emulate_key" /\ j.pc = "press"
          /\ name_to_key(j.key) = "None"
          /\ \E a \in aborted : a < j.id

\* C17: after start() every input class that has an enabled binding was given
\* its listener, also when the listener of the other class failed: a failure
\* stays inside start() and inside its class.
C17_StartFailureIsolated ==
    stop_pc.pc = "started"
        => /\ HasType(shortcuts, "keyboard") => keyboard_listener \in {"running", "failed"}
           /\ HasType(shortcuts, "mouse") => mouse_listener \in {"running", "failed"}
           /\ ~ HasType(shortcuts, "keyboard") => keyboard_listener = "None"
           /\ ~ HasType(shortcuts, "mouse") => mouse_listener = "None"

\* the keyboard listener failed and a mouse binding was dispatched and acted
W17_MouseAfterKeyboardFailure ==
    /\ keyboard_listener = "failed" /\ mouse_listener = "running"
    /\ Dispatched /\ last.device = "mouse" /\ last.acted
    /\ last.called # {}

RestoreJobsOf(k) == { j \in JobsOf(k) : j.kind = "restore" }

\* C19: a restore job is scheduled once for every finish() of a binding with
\* restore whose key is a toggle key, and never otherwise; the key is in
\* _restoring_keys when the job is scheduled, hence before its press; and a
\* restore job injects one press and one release.
C19_RestoreOnFinish ==
    /\ \A k \in DOMAIN tasks :
          /\ restores[k].jobs = IF /\ tasks[k].shortcut.restore
                                    /\ is_toggle_key(tasks[k].shortcut)
                                 THEN Count(calls[k], "finish") ELSE 0
          /\ restores[k].releases <= restores[k].presses
          /\ restores[k].presses <= restores[k].jobs
          /\ restores[k].jobs <= restores[k].presses + Cardinality(RestoreJobsOf(k))
          /\ RestoreJobsOf(k) = {} => restores[k].releases = restores[k].jobs
    /\ \A p \in last.submitted :
          p[2] = "restore" => p[1] \in restoring_keys /\ << p[1], "finish" >> \in last.called

\* a restore job has run to its end after a finish()
W19_RestoreDone ==
    \E k \in DOMAIN tasks :
        /\ restores[k].jobs > 0 /\ restores[k].releases = restores[k].jobs
        /\ RestoreJobsOf(k) = {}

Latch(k) == << tasks[k].pressed, tasks[k].released >>

\* C20: every task starts with pressed false and released true, pressed is the
\* negation of released in every state, and the latch is written by dispatches
\* of the filter only, never by a step of a worker job alone.
C20_LatchConsistent ==
    /\ \A k \in DOMAIN tasks : Latch(k) = << FALSE, TRUE >>
    /\ [](\A k \in DOMAIN tasks : tasks[k].pressed = ~ tasks[k].released)
    /\ [][(\E k \in DOMAIN tasks : Latch(k)' # Latch(k)) => Dispatched']_vars

\* a worker job took a step while the latch of its click-mode task was set
W20_JobStepWhilePressed ==
    \E k \in DOMAIN tasks :
        /\ tasks[k].pressed /\ ~ tasks[k].released
        /\ last.job > 0 /\ ~ Dispatched
        /\ \E j \in running : j.id = last.job /\ j.key = k

\* the step just taken handed an event of click-mode key k to its handler
ClickDispatched(k) ==
    /\ Dispatched /\ last.key = k /\ ~ last.marked
    /\ k \in DOMAIN tasks /\ ~ tasks[k].shortcut.hold_mode

\* C21: in click mode a press acts only when the latch is released: it sets
\* pressed, allocates a fresh wait signal and submits one countdown job and one
\* session-management job; a release acts only when the latch is pressed: it sets
\* released and resolves the current wait signal; a press while pressed and a
\* release while released change no state and submit no job.
C21_ClickLatchGuards ==
    \A k \in DOMAIN tasks :
        ClickDispatched(k) =>
            /\ last.called = {}
            /\ last.op = "press" /\ last.pre.released =>
                  /\ tasks[k].pressed /\ ~ tasks[k].released
                  /\ tasks[k].event = Len(events) /\ tasks[k].event # last.pre.event
                  /\ ~ events[tasks[k].event]
                  /\ last.submitted = {<< k, "count_down" >>, << k, "manage_task" >>}
                  /\ last.njobs = 2
            /\ last.op = "press" /\ ~ last.pre.released =>
                  ~ last.acted /\ last.njobs = 0
            /\ last.op = "release" /\ last.pre.pressed =>
                  /\ ~ tasks[k].pressed /\ tasks[k].released
                  /\ tasks[k].event = last.pre.event /\ events[tasks[k].event]
                  /\ last.njobs = 0
            /\ last.op = "release" /\ ~ last.pre.pressed =>
                  ~ last.acted /\ last.njobs = 0

\* a key auto-repeat reached the click-mode handler while the latch was pressed
W21_RepeatWhilePressed ==
    \E k \in DOMAIN tasks :
        /\ ClickDispatched(k) /\ last.op = "press" /\ ~ last.synthetic
        /\ last.pre.pressed /\ ~ last.acted

\* the step just taken handed an event of hold-mode key k to its handler
HoldDispatched(k) ==
    /\ Dispatched /\ last.key = k /\ ~ last.marked
    /\ k \in DOMAIN tasks /\ tasks[k].shortcut.hold_mode

\* C22: a hold-mode press that finds the task recording calls no collaborator
\* method and changes nothing, recording_start_time included; while the session
\* the first press of a hold opened is open, the start time is the time of that
\* press, and the release compares the time since then with the threshold.
C22_RepeatKeepsStartTime ==
    \A k \in DOMAIN tasks :
        /\ HoldDispatched(k) /\ last.op = "press" /\ last.pre.is_recording
              => last.called = {} /\ ~ last.acted /\ tasks[k].is_recording
        /\ (/\ tasks[k].shortcut.hold_mode /\ armed[k].on /\ tasks[k].is_recording
            /\ CallsSince(k) = << "launch" >>)
              => tasks[k].recording_start_time = armed[k].t
        /\ HoldDispatched(k) /\ last.op = "release" /\ last.pre.is_recording
              => last.called =
                    {<< k, IF now - tasks[k].recording_start_time < tasks[k].threshold
                           THEN "cancel" ELSE "finish" >>}

\* an auto-repeat of a held hold-mode key arrived after the session had started
W22_RepeatWhileRecording ==
    \E k \in DOMAIN tasks :
        /\ HoldDispatched(k) /\ last.op = "press" /\ ~ last.synthetic
        /\ last.pre.is_recording /\ armed[k].on
        /\ now > tasks[k].recording_start_time

ManageJobs == { j \in Range(queue) \cup running : j.kind = "manage_task" }

GoesToFinish == \E j \in running : j.id = last.job /\ j.pc = "finish"

\* C24: the session-management job calls launch() only if it found no session
\* open; it goes on to finish() only if it had found one open, its wait returned
\* True and the session is open at that moment; it calls cancel() only if it had
\* found none open and the wait timed out; in the two other cases it calls
\* neither.
C24_ManageDecisionTable ==
    /\ last.op \in {"manage_start", "manage_wait", "manage_signalled"}
          => last.called = {}
    /\ last.op = "manage_launch"
          => ~ last.was /\ last.called = {<< last.key, "launch" >>}
    /\ last.op = "manage_signalled"
          => (GoesToFinish <=> last.was /\ last.pre.is_recording)
    /\ last.op = "manage_finish"
          => last.was /\ last.called = {<< last.key, "finish" >>}
    /\ last.op = "manage_timeout"
          => last.called = IF last.was THEN {} ELSE {<< last.key, "cancel" >>}
    /\ \A j \in ManageJobs :
          /\ j.pc = "launch" => ~ j.was_recording
          /\ j.pc = "finish" => j.was_recording

\* a job that had found a session open timed out and called nothing
W24_OpenSessionTimeout ==
    /\ last.op = "manage_timeout" /\ last.was /\ last.called = {}
    /\ last.pre.is_recording

\* click-mode key k was idle, then pressed and released within 0.8 x threshold,
\* and has not been pressed since
QuickClicked(k) ==
    /\ ~ tasks[k].shortcut.hold_mode
    /\ armed[k].on /\ armed[k].ops = 2 /\ armed[k].quick

\* C25: the session opened by one quick click stays open until a later press of
\* the binding: no job finishes or cancels it, the countdown job included, and
\* once the jobs of the click have ended the session is open.
C25_QuickClickStaysOpen ==
    \A k \in DOMAIN tasks :
        QuickClicked(k) =>
            /\ CallsSince(k) \in {<< >>, << "launch" >>}
            /\ ManageJobsOf(k) = {} =>
                  /\ CallsSince(k) = << "launch" >>
                  /\ tasks[k].is_recording /\ sessions[k] = 1

\* the countdown job of a quick click fired and the session is still open
W25_OpenAfterCountdown ==
    /\ last.op = "count_down" /\ last.key \in DOMAIN tasks
    /\ QuickClicked(last.key) /\ JobsOf(last.key) = {}
    /\ tasks[last.key].is_recording

\* the key or button of binding k is physically held down
IsDown(k) ==
    \E d \in down :
        /\ d[1] = tasks[k].shortcut.type
        /\ k = IF d[1] = "mouse" THEN button_name_of(d[2]) ELSE vk_to_name(d[2])

\* C26: in click mode no job calls finish() while the button of the closing
\* press is still held down.
C26_FinishOnlyOnRelease ==
    last.op = "manage_finish" /\ << last.key, "finish" >> \in last.called
        => ~ IsDown(last.key) /\ ~ tasks[last.key].pressed

\* C27: a session-management job acts on the state of the press that spawned
\* it: its was_recording is the is_recording that press was dispatched on, and
\* the Event it waits on is the one that press allocated.
C27_JobActsOnItsPress ==
    /\ last.op = "manage_start" => last.was = last.was0
    /\ last.op = "manage_wait" => last.ev = last.ev0

\* the binding the step just taken was made for: the key of the event dispatched
\* or of the job that ran
StepKey == IF last.job > 0 THEN last.jobkey ELSE last.key

Enabled(cfg) == { s \in Range(cfg) : s.enabled }

DisabledKeys(cfg) == { s.key : s \in { x \in Range(cfg) : ~ x.enabled } }

ClosedSince(k) ==
    \E i \in 2..Len(CallsSince(k)) : CallsSince(k)[i] \in {"cancel", "finish"}

\* C30: the session a physical press of a hold-mode key opened is closed by
\* cancel() or finish() once the next physical release of the key has been
\* dispatched, whatever replay or restore job of the key is in flight; it never
\* stays open after the release
C30_HoldSessionClosedByRelease ==
    \A k \in DOMAIN tasks :
        (/\ tasks[k].shortcut.hold_mode
         /\ armed[k].on /\ armed[k].ops >= 2
         /\ CallsSince(k) # << >>)
            => CallsSince(k)[1] = "launch" /\ ClosedSince(k)

\* ------------------------------------------------------------------ C31
\* stop() has returned
StopReturned == stop_pc.pc = "done"

\* C31: once stop() has returned is_recording is false for every task and stays
\* false; no job queued or running at the call of stop() calls launch(),
\* cancel() or finish() or injects synthetic input afterwards
C31_QuietAfterStop ==
    StopReturned
        => /\ \A k \in DOMAIN tasks : ~ tasks[k].is_recording
           /\ last.called = {}
           /\ ~ last.synthetic

\* ------------------------------------------------------------------ C32
\* C32: a session is closed at most once: finish() and cancel() are called only
\* on a task whose session is open, i.e. every closing call of a task comes
\* right after a launch() of that task
C32_ClosedAtMostOnce ==
    \A k \in DOMAIN tasks :
        \A i \in DOMAIN calls[k] :
            calls[k][i] \in {"cancel", "finish"}
                => i > 1 /\ calls[k][i - 1] = "launch"

\* ------------------------------------------------------------------ C33
\* no job is queued or held by a worker
PoolIdle == queue = << >> /\ running = {}

\* the job sleeps or waits and its deadline lies beyond the last instant MaxTime
BeyondHorizon(j) == j.pc \in {"sleep", "waiting"} /\ j.t0 = MaxTime

\* the clock is at its last instant and all that is left in the pool waits for
\* a later one: sleeping or waiting jobs, and queued jobs behind 4 of them
HorizonReached ==
    /\ now = MaxTime
    /\ \A j \in running : BeyondHorizon(j)
    /\ queue # << >> => Cardinality(running) = PoolSize

\* a job stays no longer than its deadline: threshold for the sleep of the
\* countdown, 0.8 x threshold for the wait of the session management
WithinDeadline(j) ==
    /\ j.kind = "count_down" /\ j.pc = "sleep" => now <= j.t0 + tasks[j.key].threshold
    /\ j.pc = "waiting" /\ now > j.t0
           => ~ TimedOutAt(now - 1, j.t0, tasks[j.key].threshold)

\* C33: every worker job terminates, also when the button is never released:
\* no job outstays its deadline, and with fair workers every submitted job is
\* run and completes (up to the jobs whose deadline is after MaxTime)
C33_JobsTerminate ==
    /\ [](\A j \in running : WithinDeadline(j))
    /\ []<>(PoolIdle \/ HorizonReached)

\* a countdown and a session-management job of a button that is still held
\* have both completed
W33_JobsDoneWhileHeld ==
    /\ PoolIdle /\ nextJob >= 2
    /\ \E k \in DOMAIN tasks : ~ tasks[k].shortcut.hold_mode /\ tasks[k].pressed

\* ------------------------------------------------------------------ C34
\* the replay jobs the step just taken submitted
ReplaysSubmitted ==
    { s \in last.submitted : s[2] \in {"emulate_key", "emulate_mouse_click"} }

\* the step just taken was the release of hold-mode suppressing key k handled
\* by the filter, and it cancelled the session of k
CancellingRelease(k) ==
    /\ last.op = "release" /\ last.key = k
    /\ tasks[k].shortcut.hold_mode /\ tasks[k].shortcut.suppress
    /\ << k, "cancel" >> \in last.called

\* C34: a replay job is scheduled if and only if a hold-mode release cancels a
\* session (elapsed < threshold) on a binding with suppress=true; none on the
\* finish path, none for suppress=false, none for a click-mode binding
C34_ReplayIffShortHoldSuppressed ==
    /\ \A k \in DOMAIN tasks :
           CancellingRelease(k)
               <=> \E s \in ReplaysSubmitted : s[1] = k
    /\ \A s \in ReplaysSubmitted :
           /\ s[1] \in DOMAIN tasks
           /\ now - tasks[s[1]].recording_start_time < tasks[s[1]].threshold
           /\ << s[1], "finish" >> \notin last.called
           /\ s[2] = (IF tasks[s[1]].shortcut.type = "mouse"
                      THEN "emulate_mouse_click" ELSE "emulate_key")

\* the release of a short press of a suppressing hold-mode binding has just
\* submitted its replay
W34_ReplaySubmitted ==
    \E k \in DOMAIN tasks : CancellingRelease(k) /\ ReplaysSubmitted # {}

\* ------------------------------------------------------------------ C35
RenameKey(x, from, to) == IF x = from THEN to ELSE x

RenameFn(f, from, to) ==
    [x \in { RenameKey(y, from, to) : y \in DOMAIN f } |->
        IF x = to THEN f[from] ELSE f[x]]

ReplayKind(type) == IF type = "mouse" THEN "emulate_mouse_click" ELSE "emulate_key"

RenameJob(j, from, to, type) ==
    IF j.key # from THEN j
    ELSE [j EXCEPT !.key = to,
                   !.kind = IF @ \in {"emulate_key", "emulate_mouse_click"}
                            THEN ReplayKind(type) ELSE @]

\* the manager state m with the binding of key `from' bound to the key or
\* button `to' of the device `type' instead, everything else as it is
Rebind(m, from, to, type) ==
    [m EXCEPT !.tasks = [x \in { RenameKey(y, from, to) : y \in DOMAIN m.tasks } |->
                            IF x = to
                            THEN [m.tasks[from] EXCEPT !.shortcut.key = to,
                                                       !.shortcut.type = type]
                            ELSE m.tasks[x]],
              !.calls = RenameFn(@, from, to),
              !.sessions = RenameFn(@, from, to),
              !.restores = RenameFn(@, from, to),
              !.emulating = { RenameKey(y, from, to) : y \in @ },
              !.restoring = { RenameKey(y, from, to) : y \in @ },
              !.queue = [i \in DOMAIN @ |-> RenameJob(@[i], from, to, type)]]

\* the filter of the device run on a press or a release with the raw code
FilterOn(m, type, code, press) ==
    IF type = "mouse"
    THEN mouse_filter(m, IF press THEN WM_XBUTTONDOWN ELSE WM_XBUTTONUP, code)
    ELSE keyboard_filter(m, IF press THEN WM_KEYDOWN ELSE WM_KEYUP, code)

\* the bound keys and their raw codes, each with a free key or button of the
\* other device and its raw code to compare with
Twins ==
    { << c[1], c[2], "x2", XBUTTON2, "mouse" >> :
          c \in { x \in (DOMAIN tasks) \X KeyboardCodes :
                    /\ tasks[x[1]].shortcut.type = "keyboard"
                    /\ vk_to_name(x[2]) = x[1]
                    /\ "x2" \notin DOMAIN tasks } }
    \cup { << c[1], c[2], "f1", VK_F1, "keyboard" >> :
          c \in { x \in (DOMAIN tasks) \X XButtons :
                    /\ tasks[x[1]].shortcut.type = "mouse"
                    /\ button_name_of(x[2]) = x[1]
                    /\ "f1" \notin DOMAIN tasks } }

\* dispatching the event to the binding and to its twin on the other device
\* gives the same decision, the same calls, the same task state and the same
\* jobs (a replay job being the one of the device)
SameOutcome(t, press) ==
    LET A == FilterOn(Mgr, tasks[t[1]].shortcut.type, t[2], press)
        B == FilterOn(Rebind(Mgr, t[1], t[3], t[5]), t[5], t[4], press)
    IN  /\ A.decision = B.decision
        /\ A.marked = B.marked
        /\ Rebind(A.m, t[1], t[3], t[5]) = B.m

\* the binding restores its key when a session finishes
RestoresOnFinish(shortcut) == shortcut.restore /\ is_toggle_key(shortcut)

\* C35 as stated: a keyboard and a mouse binding with the same mode, suppress
\* flag and threshold go through the same state machine: in every state the
\* same event yields the same calls, the same decision and the same jobs
C35_SameStateMachine ==
    \A t \in Twins : \A press \in BOOLEAN : SameOutcome(t, press)

\* C35 amended: the same for the bindings that schedule no restore
C35_SameStateMachineNoRestore ==
    \A t \in Twins : \A press \in BOOLEAN :
        ~ RestoresOnFinish(tasks[t[1]].shortcut)
            => SameOutcome(t, press)

\* a session is open on a binding that schedules no restore, on either device
W35_TwinSessionOpen ==
    /\ \E t \in Twins : /\ ~ RestoresOnFinish(tasks[t[1]].shortcut)
                        /\ tasks[t[1]].is_recording
                        /\ queue # << >>

\* ------------------------------------------------------------------ C36
\* C36: in click mode the latch follows the physical button: pressed is true
\* exactly when the most recent physical event delivered for the binding was a
\* press, after any sequence of events and worker jobs
C36_LatchFollowsButton ==
    \A k \in DOMAIN tasks :
        ~ tasks[k].shortcut.hold_mode => (tasks[k].pressed <=> IsDown(k))

\* ------------------------------------------------------------------ C37
\* the raw codes examined: one byte
RawCodes == 0..255

\* C37: the key mapping is bidirectional on the key table: _vk_to_name is
\* injective on the table, _name_to_key finds a key for the identifier of every
\* code of the table and none for the identifier of a code outside it.  (The
\* mapping does not depend on the state: the codes are examined once, when the
\* manager is built; a replay job of a bound key finds its key object.)
C37_KeyMappingBidirectional ==
    /\ stop_pc.pc = "constructed" =>
          /\ \A vk \in DOMAIN vk_map : \A vk2 \in DOMAIN vk_map :
                vk_to_name(vk) = vk_to_name(vk2) => vk = vk2
          /\ \A vk \in DOMAIN vk_map : name_to_key(vk_to_name(vk)) # "None"
          /\ \A vk \in RawCodes \ DOMAIN vk_map :
                name_to_key(vk_to_name(vk)) = "None"
    /\ \A j \in running :
          j.kind = "emulate_key" /\ j.pc = "press"
              => name_to_key(j.key) # "None"

\* a replay job of a keyboard binding is about to look its key object up
W37_ReplayLooksKeyUp ==
    \E j \in running : j.kind = "emulate_key" /\ j.pc = "press"

====
